---- MODULE Spec2Model ----
(***************************************************************************)
(* Model of cebra/datasets/hippocampus.py: the trial splitting of          *)
(* SingleRatTrialSplitDataset._split and the neighbour sweep of            *)
(* SingleRatDataset.decode.                                                *)
(*                                                                         *)
(* Rows and trial numbers are 0-based as in the source; TLA+ sequences are *)
(* 1-based containers, so row i of a tensor t is t[i + 1].                 *)
(* A row of self.neural is modelled by the number of the time step it was  *)
(* recorded at; a row of self.index is <<position, direction>> with the    *)
(* time step standing for the position.                                    *)
(***************************************************************************)
EXTENDS Integers, Sequences, FiniteSets, TLC

VARIABLES neural, index, split_no, split_name, selected_indices, concat_idx,
          pc, error, arg, trial_change_idx, folds, train_trials,
          valid_trials, test_trials, trials, metric

vars == <<neural, index, split_no, split_name, selected_indices, concat_idx,
          pc, error, arg, trial_change_idx, folds, train_trials,
          valid_trials, test_trials, trials, metric>>

(***************************************************************************)
(* Bounds of the model.                                                    *)
(***************************************************************************)
\* every direction sequence up to this length is a recording
MaxShortLen == 5
\* alternating recordings have up to this many constant-direction runs
MaxRuns == 37
\* the longer run of an alternating recording is one of its first runs
MaxLongPos == 3
\* length of the one longer run of an alternating recording
LongRunLen == 2

(***************************************************************************)
(* Program constants.                                                      *)
(***************************************************************************)
n_outer_folds == 3
n_splits == 3
linspace_start == 1
linspace_stop == 10
linspace_num == 6

SplitNos == {0, 1, 2}
ValidSplits == {"train", "valid", "test", "all", "wo_test"}
SplitArgs == ValidSplits \cup {"bogus"}
None == "None"

(***************************************************************************)
(* numpy / sklearn helpers, computed as the libraries compute them.        *)
(***************************************************************************)
\* np.arange(n)
np_arange(n) == [i \in 1..n |-> i - 1]

\* seq[a:b] for 0 <= a <= b <= len(seq)
Slice(seq, a, b) == SubSeq(seq, a + 1, b)

\* arr[idx] with idx a list of 0-based positions
FancyIndex(arr, idx) == [k \in 1..Len(idx) |-> arr[idx[k] + 1]]

Min(a, b) == IF a <= b THEN a ELSE b

\* start (0-based) and size of section k (1-based) of np.array_split(ary, n):
\* the first len % n sections hold len // n + 1 elements, the rest len // n
SectionSize(l, n, k) == (l \div n) + (IF k <= l % n THEN 1 ELSE 0)
SectionStart(l, n, k) == (k - 1) * (l \div n) + Min(k - 1, l % n)

array_split_drop_rest(ary, n) ==
    [k \in 1..n |-> Slice(ary, (k - 1) * (Len(ary) \div n),
                               k * (Len(ary) \div n))]

np_array_split(ary, n) ==
    [k \in 1..n |-> Slice(ary, SectionStart(Len(ary), n, k),
                               SectionStart(Len(ary), n, k)
                                 + SectionSize(Len(ary), n, k))]

\* sklearn KFold(n_splits, shuffle=False).split(X) as a list: the k-th pair
\* is (train_index, test_index); test_index is the k-th contiguous block of
\* positions, train_index every other position in ascending order.
KFold_swapped(X) ==
    [k \in 1..n_splits |->
        LET lo == SectionStart(Len(X), n_splits, k)
            hi == lo + SectionSize(Len(X), n_splits, k)
        IN  <<Slice(np_arange(Len(X)), lo, hi),
              SelectSeq(np_arange(Len(X)), LAMBDA i : i < lo \/ i >= hi)>>]

KFold_split(X) ==
    [k \in 1..n_splits |->
        LET lo == SectionStart(Len(X), n_splits, k)
            hi == lo + SectionSize(Len(X), n_splits, k)
        IN  <<SelectSeq(np_arange(Len(X)), LAMBDA i : i < lo \/ i >= hi),
              Slice(np_arange(Len(X)), lo, hi)>>]

\* np.cumsum
RECURSIVE np_cumsum(_)
np_cumsum(s) ==
    IF s = <<>> THEN <<>>
    ELSE LET front == np_cumsum(SubSeq(s, 1, Len(s) - 1))
         IN  Append(front, (IF front = <<>> THEN 0 ELSE front[Len(front)])
                           + s[Len(s)])

\* torch.cat of a non-empty list of tensors
RECURSIVE torch_cat(_)
torch_cat(ts) ==
    IF ts = <<>> THEN <<>> ELSE ts[1] \o torch_cat(Tail(ts))

(***************************************************************************)
(* _split, lines 122-126: the trial boundaries.                            *)
(***************************************************************************)
\* np.where(self.index[1:, 1] != self.index[:-1, 1])[0]
direction_change_idx(idx) ==
    SelectSeq(np_arange(IF Len(idx) = 0 THEN 0 ELSE Len(idx) - 1),
              LAMBDA i : idx[i + 2][2] # idx[i + 1][2])

\* s[0::2]
every_second_from_0(s) == [k \in 1..((Len(s) + 1) \div 2) |-> s[2 * k - 1]]

\* s[1::2]
every_second_from_1(s) == [k \in 1..(Len(s) \div 2) |-> s[2 * k]]

trial_change_idx_no_append(idx) ==
    <<0>> \o every_second_from_1(direction_change_idx(idx))

\* np.append(np.insert(direction_change_idx[1::2], 0, 0), len(self.index))
trial_change_idx_of(idx) ==
    (<<0>> \o every_second_from_1(direction_change_idx(idx))) \o <<Len(idx)>>

total_trials_num(idx) == Len(trial_change_idx_of(idx)) - 1

(***************************************************************************)
(* _split, lines 128-156: the folds.  The locals of the loop are carried   *)
(* in a record; folds keeps each iteration's out_fold and its parts.       *)
(***************************************************************************)
NoLocals ==
    [error |-> "none", folds |-> <<>>, train_trials |-> <<>>,
     valid_trials |-> <<>>, test_trials |-> <<>>, trials |-> <<>>]

RECURSIVE for_out_fold(_, _, _, _)
for_out_fold(outer_folds, k, sn, acc) ==
    IF k > Len(outer_folds) THEN acc
    ELSE LET out_fold == outer_folds[k] IN
         IF n_splits > Len(out_fold)
         THEN \* KFold.split raises: more splits than samples
              [acc EXCEPT !.error = "ValueError:n_splits"]
         ELSE LET pair           == KFold_split(out_fold)[sn + 1]
                  train_trial    == pair[1]
                  val_test_trial == pair[2]
                  halves         == np_array_split(val_test_trial, 2)
                  test_trial     == halves[1]
                  valid_trial    == halves[2]
                  train          == acc.train_trials
                                      \o FancyIndex(out_fold, train_trial)
                  valid          == acc.valid_trials
                                      \o FancyIndex(out_fold, valid_trial)
                  test           == acc.test_trials
                                      \o FancyIndex(out_fold, test_trial)
              IN  for_out_fold(outer_folds, k + 1, sn,
                    [error |-> "none",
                     folds |-> Append(acc.folds,
                                 [out_fold |-> out_fold,
                                  train_trial |-> train_trial,
                                  val_test_trial |-> val_test_trial,
                                  test_trial |-> test_trial,
                                  valid_trial |-> valid_trial]),
                     train_trials |-> train,
                     valid_trials |-> valid,
                     test_trials |-> test,
                     \* lines 148-152 are statements of the loop body: the
                     \* last of the five assignments stands
                     trials |-> train \o valid])

(***************************************************************************)
(* _split, lines 157-171: the selection, the concatenation and the         *)
(* discontinuity offsets.                                                  *)
(***************************************************************************)
\* tuple(slice(trial_change_idx[i], trial_change_idx[i + 1]) for i in trials)
slices(tci, ts) == [k \in 1..Len(ts) |-> <<tci[ts[k] + 1], tci[ts[k] + 2]>>]

\* torch.cat([tensor[trial_change_idx[i]:trial_change_idx[i + 1]] for i in trials])
cat_trials(tensor, tci, ts) ==
    torch_cat([k \in 1..Len(ts) |-> Slice(tensor, tci[ts[k] + 1], tci[ts[k] + 2])])

cumulated_len(tci, ts) ==
    np_cumsum([k \in 1..Len(ts) |-> tci[ts[k] + 2] - tci[ts[k] + 1]])

\* cumulated_len[:-1][np.array(trials[:-1]) + 1 != trials[1:]]
concat_idx_of(tci, ts) ==
    LET cl == cumulated_len(tci, ts)
        keep == SelectSeq(np_arange(IF Len(ts) = 0 THEN 0 ELSE Len(ts) - 1),
                          LAMBDA k : ts[k + 1] + 1 # ts[k + 2])
    IN  [j \in 1..Len(keep) |-> cl[keep[j] + 1]]

Unset == [set |-> FALSE, val |-> <<>>]
SetTo(v) == [set |-> TRUE, val |-> v]

(***************************************************************************)
(* _split as a whole: what the call leaves in the object and in its        *)
(* locals.  The for statement of line 140 contains no break, so its else   *)
(* clause (lines 153-156) runs whenever the loop runs to its end.          *)
(***************************************************************************)
loop_broke == FALSE

Raised(neu, idx, sel, cidx, tci, loc, err) ==
    [neural |-> neu, index |-> idx, selected_indices |-> sel,
     concat_idx |-> cidx, error |-> err, trial_change_idx |-> tci,
     folds |-> loc.folds, train_trials |-> loc.train_trials,
     valid_trials |-> loc.valid_trials, test_trials |-> loc.test_trials,
     trials |-> loc.trials]

\* lines 157-171, run with the locals loc
select_and_concat(neu, idx, sel, cidx, tci, loc) ==
    IF loc.trials = <<>>
    THEN \* torch.cat of an empty list raises after line 157-158 has run
         Raised(neu, idx, SetTo(slices(tci, loc.trials)), cidx, tci, loc,
                "RuntimeError:cat")
    ELSE Raised(cat_trials(neu, tci, loc.trials),
                cat_trials(idx, tci, loc.trials),
                SetTo(slices(tci, loc.trials)),
                SetTo(concat_idx_of(tci, loc.trials)),
                tci, loc, "none")

split_write_first(neu, idx, sel, cidx, sn, split) ==
    LET tci == trial_change_idx_of(idx)
        outer_folds == np_array_split(np_arange(total_trials_num(idx)),
                                      n_outer_folds)
        loc == for_out_fold(outer_folds, 1, sn, NoLocals)
    IN  IF loc.error # "none"
        THEN Raised(neu, idx, sel, cidx, tci, loc, loc.error)
        ELSE Raised(neu, idx, SetTo(slices(tci, loc.trials)), cidx, tci, loc,
                    "ValueError:split")

split_result(neu, idx, sel, cidx, sn, split) ==
    LET tci == trial_change_idx_of(idx)
        outer_folds == np_array_split(np_arange(total_trials_num(idx)),
                                      n_outer_folds)
        loc == for_out_fold(outer_folds, 1, sn, NoLocals)
    IN  IF loc.error # "none"
        THEN Raised(neu, idx, sel, cidx, tci, loc, loc.error)
        ELSE IF ~loop_broke
        THEN Raised(neu, idx, sel, cidx, tci, loc, "ValueError:split")
        ELSE select_and_concat(neu, idx, sel, cidx, tci, loc)

(***************************************************************************)
(* decode, lines 81-91.                                                    *)
(***************************************************************************)
\* np.linspace(start, stop, num, dtype=int): start + i * (stop - start) /
\* (num - 1), truncated to an integer
np_linspace_int(start, stop, num) ==
    [i \in 1..num |-> start + ((i - 1) * (stop - start)) \div (num - 1)]

\* np.power(np.linspace(1, 10, 6, dtype=int), 2)
nn == [i \in 1..linspace_num |->
         np_linspace_int(linspace_start, linspace_stop, linspace_num)[i]
         * np_linspace_int(linspace_start, linspace_stop, linspace_num)[i]]

\* the keys f"n{n}_err" and f"n{n}_r2" written by the loop; the fitted
\* values are not modelled
metric_keys == {<<nn[i], kind>> : i \in 1..Len(nn), kind \in {"err", "r2"}}

(***************************************************************************)
(* The recordings a dataset file may hold.                                 *)
(***************************************************************************)
RECURSIVE Expand(_, _)
Expand(rl, d) ==
    IF rl = <<>> THEN <<>>
    ELSE [i \in 1..rl[1] |-> d] \o Expand(Tail(rl), 1 - d)

ShortDirections == UNION {[1..n -> {0, 1}] : n \in 0..MaxShortLen}

LapDirections ==
    {Expand([i \in 1..n |-> IF i = long THEN LongRunLen ELSE 1], first) :
        n \in 0..MaxRuns, long \in 0..MaxLongPos, first \in {0, 1}}

Directions == ShortDirections \cup LapDirections

(***************************************************************************)
(* State machine.                                                          *)
(***************************************************************************)
\* after SingleRatDataset.__init__ (line 109): the recording is loaded,
\* split_no and split_name are not assigned yet
Init ==
    /\ \E d \in Directions :
          /\ index = [i \in 1..Len(d) |-> <<i - 1, d[i]>>]
          /\ neural = [i \in 1..Len(d) |-> i - 1]
    /\ split_no = 0
    /\ split_name = None
    /\ selected_indices = Unset
    /\ concat_idx = Unset
    /\ pc = "loaded"
    /\ error = "none"
    /\ arg = None
    /\ trial_change_idx = <<>>
    /\ folds = <<>>
    /\ train_trials = <<>>
    /\ valid_trials = <<>>
    /\ test_trials = <<>>
    /\ trials = <<>>
    /\ metric = {}

Apply(r, sp) ==
    /\ neural' = r.neural
    /\ index' = r.index
    /\ selected_indices' = r.selected_indices
    /\ concat_idx' = r.concat_idx
    /\ error' = r.error
    /\ arg' = sp
    /\ trial_change_idx' = r.trial_change_idx
    /\ folds' = r.folds
    /\ train_trials' = r.train_trials
    /\ valid_trials' = r.valid_trials
    /\ test_trials' = r.test_trials
    /\ trials' = r.trials

\* SingleRatTrialSplitDataset.__init__, lines 110-113
__init__ ==
    /\ pc = "loaded"
    /\ \E sn \in SplitNos, sp \in SplitArgs \cup {None} :
          /\ split_no' = sn
          /\ split_name' = sp
          /\ IF sp # None
             THEN LET r == split_result(neural, index, selected_indices,
                                        concat_idx, sn, sp)
                  IN  /\ Apply(r, sp)
                      /\ pc' = IF r.error = "none" THEN "ready" ELSE "failed"
             ELSE /\ pc' = "ready"
                  /\ UNCHANGED <<neural, index, selected_indices, concat_idx,
                                 error, arg, trial_change_idx, folds,
                                 train_trials, valid_trials, test_trials,
                                 trials>>
    /\ UNCHANGED metric

\* SingleRatTrialSplitDataset._split called on a constructed dataset
_split ==
    /\ pc = "ready"
    /\ \E sp \in SplitArgs :
          Apply(split_result(neural, index, selected_indices, concat_idx,
                             split_no, sp), sp)
    /\ UNCHANGED <<split_no, split_name, pc, metric>>

\* SingleRatDataset.decode
decode ==
    /\ pc = "ready"
    /\ metric' = metric_keys
    /\ UNCHANGED <<neural, index, split_no, split_name, selected_indices,
                   concat_idx, pc, error, arg, trial_change_idx, folds,
                   train_trials, valid_trials, test_trials, trials>>

Next == __init__ \/ _split \/ decode

Spec == Init /\ [][Next]_vars

(***************************************************************************)
(* Vocabulary of the properties.                                           *)
(***************************************************************************)
Range(s) == {s[i] : i \in DOMAIN s}

StrictlyIncreasing(s) == \A i \in 1..(Len(s) - 1) : s[i] < s[i + 1]

\* a call of _split has returned or raised; its locals are in the state
Called == arg # None

\* total_trials_num of the last call
NTrials == Len(trial_change_idx) - 1

\* direction of row i (0-based) of the recording
Dir(i) == index[i + 1][2]

\* the places i where the direction differs between steps i and i + 1
Changes == {i \in 0..(Len(index) - 2) : Dir(i) # Dir(i + 1)}

\* the elements of a set of integers in ascending order
Ascending(S) ==
    [k \in 1..Cardinality(S) |->
        CHOOSE x \in S : Cardinality({y \in S : y < x}) = k - 1]

\* the recording as it was loaded: row i holds time step i
Original(tensor) == \A i \in 1..Len(tensor) : tensor[i] = i - 1

IsValueError(e) == e \in {"ValueError:split", "ValueError:n_splits"}

IsPartition ==
    /\ Range(train_trials) \cap Range(valid_trials) = {}
    /\ Range(train_trials) \cap Range(test_trials) = {}
    /\ Range(valid_trials) \cap Range(test_trials) = {}
    /\ Range(train_trials) \cup Range(valid_trials) \cup Range(test_trials)
         = 0..(NTrials - 1)
    /\ Len(train_trials) + Len(valid_trials) + Len(test_trials) = NTrials

(***************************************************************************)
(* C1.                                                                     *)
(***************************************************************************)
\* C1 as claimed: for every recording, fewer than 9 trials included, and
\* every split_no, the train, valid and test lists accumulated by _split are
\* pairwise disjoint and together hold each trial 0..trial_count-1 once.
C1_AnyTrialCount == Called => IsPartition

\* C1 amended: for every recording with at least 9 trials and every
\* split_no, the train, valid and test lists accumulated by _split are
\* pairwise disjoint and together hold each trial 0..trial_count-1 once.
C1_PartitionFrom9Trials == (Called /\ NTrials >= 9) => IsPartition

C1_Witness ==
    /\ Called
    /\ NTrials >= 10
    /\ Len(folds) = n_outer_folds
    /\ valid_trials # <<>>
    /\ IsPartition

(***************************************************************************)
(* C2.                                                                     *)
(***************************************************************************)
ExpectedTrials(sp) ==
    CASE sp = "train"   -> train_trials
      [] sp = "valid"   -> valid_trials
      [] sp = "test"    -> test_trials
      [] sp = "all"     -> np_arange(NTrials)
      [] sp = "wo_test" -> train_trials \o valid_trials

\* C2 as claimed, on the recordings of at least 9 trials (every outer fold
\* can be split three ways): _split with a name in {train, valid, test,
\* all, wo_test} completes without raising and selects the list the name
\* stands for; the invalid-argument error is reached only for other names.
C2_ValidNamesSelect ==
    NTrials >= 9 =>
        /\ arg \in ValidSplits =>
              /\ error = "none"
              /\ selected_indices
                   = SetTo(slices(trial_change_idx, ExpectedTrials(arg)))
        /\ error = "ValueError:split" => arg \notin ValidSplits

(***************************************************************************)
(* C3.                                                                     *)
(***************************************************************************)
\* C3: a call of _split with a name outside the five split names ends in a
\* ValueError and leaves neural, index, selected_indices and concat_idx as
\* they were before the call.
C3_InvalidNameRaisesUnchanged ==
    [][(arg' \notin ValidSplits \cup {None}) =>
          /\ IsValueError(error')
          /\ neural' = neural
          /\ index' = index
          /\ selected_indices' = selected_indices
          /\ concat_idx' = concat_idx]_vars

C3_Witness ==
    /\ arg = "bogus"
    /\ error = "ValueError:split"
    /\ NTrials >= 9
    /\ Original(neural)
    /\ selected_indices = Unset
    /\ concat_idx = Unset

(***************************************************************************)
(* C4.                                                                     *)
(***************************************************************************)
\* C4 as claimed, on the recordings of at least 9 trials: after
\* _split("all") the selected trials are 0, 1, ..., trial_count-1 in order,
\* neural and index are row for row the loaded recording, and concat_idx
\* is empty.
C4_AllKeepsRecording ==
    (arg = "all" /\ NTrials >= 9) =>
        /\ selected_indices = SetTo(slices(trial_change_idx, np_arange(NTrials)))
        /\ Original(neural)
        /\ \A i \in 1..Len(index) : index[i][1] = i - 1
        /\ Len(neural) = trial_change_idx[Len(trial_change_idx)]
        /\ concat_idx = SetTo(<<>>)

(***************************************************************************)
(* C5.                                                                     *)
(***************************************************************************)
\* C5 as claimed, on the recordings of at least 9 trials: after
\* _split("wo_test") the selected trial sequence is the ascending union of
\* the train and valid lists: every train and every valid trial once, no
\* test trial, in strictly increasing order.
C5_WoTestAscendingUnion ==
    (arg = "wo_test" /\ NTrials >= 9) =>
        selected_indices
          = SetTo(slices(trial_change_idx,
                         Ascending(Range(train_trials) \cup Range(valid_trials))))

(***************************************************************************)
(* C6.                                                                     *)
(***************************************************************************)
BoundariesCover ==
    /\ StrictlyIncreasing(trial_change_idx)
    /\ trial_change_idx[1] = 0
    /\ trial_change_idx[Len(trial_change_idx)] = Len(index)
    /\ Len(trial_change_idx) = NTrials + 1
    /\ NTrials = Cardinality(Changes) \div 2 + 1

\* C6 as claimed: for any recording, the empty one included, the boundary
\* list is strictly increasing, starts at 0, ends at the recording length
\* and has trial_count + 1 elements.
C6_AnyRecording == Called => BoundariesCover

\* C6 amended: for any recording of at least one time step the boundary
\* list is strictly increasing, starts at 0, ends at the recording length
\* and has trial_count + 1 elements (one boundary per second direction
\* change); the empty recording yields <<0, 0>>, one empty trial.
C6_NonEmptyRecording ==
    /\ (Called /\ Len(index) >= 1) => BoundariesCover
    /\ (Called /\ Len(index) = 0) => trial_change_idx = <<0, 0>>

C6_Witness ==
    /\ Called
    /\ Len(index) >= 1
    /\ Len(trial_change_idx) >= 4
    /\ BoundariesCover

(***************************************************************************)
(* C7.                                                                     *)
(***************************************************************************)
\* C7 as claimed: decode fits one regressor for each neighbour count in
\* {1, 4, 9, 16, 25, 36} and returns one _err and one _r2 entry for each of
\* these six counts and no others.
C7_SquaresOf1To6 ==
    metric # {} =>
        metric = {<<n * n, kind>> : n \in 1..6, kind \in {"err", "r2"}}

(***************************************************************************)
(* C8.                                                                     *)
(***************************************************************************)
Bisected(f) ==
    /\ f.val_test_trial = f.test_trial \o f.valid_trial
    /\ Len(f.test_trial) - Len(f.valid_trial) \in {0, 1}
    /\ Range(f.train_trial) \cap Range(f.val_test_trial) = {}
    /\ Range(f.train_trial) \cup Range(f.val_test_trial)
         = 0..(Len(f.out_fold) - 1)

\* C8 as claimed: in each outer fold the part bisected into test and valid
\* holds two thirds of the fold's trials and the train part one third; the
\* bisection keeps index order, test first, the extra trial going to test.
C8_RemainderTwoThirds ==
    \A k \in DOMAIN folds :
        LET f == folds[k]
            s == Len(f.out_fold)
        IN  /\ Len(f.val_test_trial) \in {(2 * s) \div 3, (2 * s + 2) \div 3}
            /\ Len(f.train_trial) \in {s \div 3, (s + 2) \div 3}
            /\ Bisected(f)

\* C8 amended: in each outer fold the part bisected into test and valid is
\* one of the three contiguous KFold blocks, a third of the fold's trials
\* (rounded down or up), and the train part holds the other two thirds; the
\* bisection keeps index order, test first, the extra trial going to test.
C8_RemainderOneThird ==
    \A k \in DOMAIN folds :
        LET f == folds[k]
            s == Len(f.out_fold)
        IN  /\ Len(f.val_test_trial) \in {s \div 3, (s + 2) \div 3}
            /\ Len(f.train_trial) = s - Len(f.val_test_trial)
            /\ Len(f.train_trial) \in {(2 * s) \div 3, (2 * s + 2) \div 3}
            /\ Bisected(f)

C8_Witness ==
    /\ Len(folds) = n_outer_folds
    /\ Len(folds[1].val_test_trial) = 3
    /\ Len(folds[1].test_trial) = 2
    /\ Len(folds[1].valid_trial) = 1
    /\ Len(folds[2].val_test_trial) = 2
    /\ C8_RemainderOneThird

(***************************************************************************)
(* C9.                                                                     *)
(***************************************************************************)
\* the offsets at which the k-th selected trial is not the one after the
\* (k-1)-th, for the trial list ts
Discontinuities(ts) ==
    LET lens == [k \in 1..Len(ts) |->
                    trial_change_idx[ts[k] + 2] - trial_change_idx[ts[k] + 1]]
        Before(k) == IF k = 1 THEN 0 ELSE np_cumsum(SubSeq(lens, 1, k - 1))[k - 1]
    IN  {Before(k) : k \in {j \in 2..Len(ts) : ts[j] # ts[j - 1] + 1}}

InteriorBoundaries ==
    {trial_change_idx[j] : j \in 2..(Len(trial_change_idx) - 1)}

\* C10 as claimed: every trial is a maximal run of one direction: the rows
\* of a trial share one direction value and a boundary lies exactly at each
\* place where the direction differs between two consecutive steps.
C10_TrialsAreRuns ==
    Called =>
        /\ \A j \in 1..NTrials :
              \A a, b \in trial_change_idx[j]..(trial_change_idx[j + 1] - 1) :
                  Dir(a) = Dir(b)
        /\ InteriorBoundaries = {i + 1 : i \in Changes}

\* C10 amended: the interior boundaries are exactly the indices i of the
\* 2nd, 4th, 6th, ... places where direction[i] differs from
\* direction[i + 1]; a trial therefore spans up to two direction changes
\* (a lap) and is not a run of one direction.
C10_EverySecondChange ==
    Called =>
        /\ \A j \in 2..(Len(trial_change_idx) - 1) :
              /\ trial_change_idx[j] \in Changes
              /\ Cardinality({i \in Changes : i < trial_change_idx[j]})
                   = 2 * (j - 1) - 1
        /\ Cardinality(InteriorBoundaries) = Cardinality(Changes) \div 2

C10_Witness ==
    /\ Called
    /\ Len(trial_change_idx) >= 4
    /\ \E j \in 1..NTrials :
          \E a, b \in trial_change_idx[j]..(trial_change_idx[j + 1] - 1) :
              Dir(a) # Dir(b)
    /\ C10_EverySecondChange

====
